---- MODULE Spec2Model ----
(***************************************************************************)
(* A model of backend/backend_app.py: the in-memory post list POSTS and    *)
(* the five HTTP handlers working on it.                                   *)
(*                                                                         *)
(* Strings that the code inspects character by character (titles,          *)
(* contents, search queries) are sequences of code points, so that         *)
(* str.lower(), the `in` substring test and the ordering used by sorted()  *)
(* are computed as Python computes them.  Strings that the code only       *)
(* compares for equality (the sort and direction arguments, the messages)  *)
(* are TLA+ strings.  request.args and the JSON body are functions whose   *)
(* domain is the set of keys that were supplied.                           *)
(***************************************************************************)
EXTENDS Integers, Sequences, FiniteSets, TLC

VARIABLES
    POSTS,     \* the module-level list of post dictionaries
    req,       \* the request handled last (sequential handlers)
    resp,      \* the response to it: [status, body]
    returned,  \* history: the ids returned by inserts so far
    freed,     \* history: the ids of the posts deleted so far
    thr        \* the in-flight handlers of the threaded server

vars == <<POSTS, req, resp, returned, freed, thr>>

(* Bounds of the model *)
MaxId == 4
MaxPosts == 4
NumThreads == 2

\* the ids requests name
Ids == 1..MaxId

(***************************************************************************)
(* Strings                                                                 *)
(***************************************************************************)
\* "First post", "This is the first post."
SeedTitle1 == <<70, 105, 114, 115, 116, 32, 112, 111, 115, 116>>
SeedContent1 == <<84, 104, 105, 115, 32, 105, 115, 32, 116, 104, 101, 32,
                  102, 105, 114, 115, 116, 32, 112, 111, 115, 116, 46>>
\* "Second post", "This is the second post."
SeedTitle2 == <<83, 101, 99, 111, 110, 100, 32, 112, 111, 115, 116>>
SeedContent2 == <<84, 104, 105, 115, 32, 105, 115, 32, 116, 104, 101, 32,
                  115, 101, 99, 111, 110, 100, 32, 112, 111, 115, 116, 46>>

\* the titles and contents requests carry: "a", "Ab" and "b"
Titles == {<<97>>, <<65, 98>>}
Contents == {<<98>>}
\* the search queries requests carry: "", "B", "POST"
Queries == {<< >>, <<66>>, <<80, 79, 83, 84>>}

\* str.lower() on one code point (ASCII letters)
LowerChar(c) == IF c \in 65..90 THEN c + 32 ELSE c

\* str.lower()
Lower(s) == [i \in 1..Len(s) |-> LowerChar(s[i])]

\* `sub in s` on strings: sub occurs in s as a contiguous run
Contains(s, sub) ==
    \E k \in 0..(Len(s) - Len(sub)) :
        \A i \in 1..Len(sub) : s[k + i] = sub[i]

\* `a < b` on strings: the first differing code point decides, a proper
\* prefix is smaller
StrLess(a, b) ==
    \E k \in 1..Len(b) :
        /\ \A i \in 1..(k - 1) : i <= Len(a) /\ a[i] = b[i]
        /\ \/ k = Len(a) + 1
           \/ k <= Len(a) /\ a[k] < b[k]

(***************************************************************************)
(* Requests                                                                *)
(***************************************************************************)
\* request.args.get(key): a value, or None when the key was not supplied.
Supplied(args, key) == key \in DOMAIN args

\* Python truthiness of request.args.get(key): supplied and not empty
Truthy(args, key, empty) == Supplied(args, key) /\ args[key] # empty

SortValues == {"title", "content", "id"}
DirValues == {"asc", "desc", "up"}

SortArgs ==
    UNION { { [k \in D |-> IF k = "sort" THEN s ELSE d] :
                s \in SortValues, d \in DirValues } :
            D \in SUBSET {"sort", "direction"} }

SearchArgs ==
    UNION { { [k \in D |-> IF k = "title" THEN t ELSE c] :
                t \in Queries, c \in Queries } :
            D \in SUBSET {"title", "content"} }

JsonBodies ==
    UNION { { [k \in D |-> IF k = "title" THEN t ELSE c] :
                t \in Titles, c \in Contents } :
            D \in SUBSET {"title", "content"} }

(***************************************************************************)
(* The post store                                                          *)
(***************************************************************************)
SeedPosts ==
    << [id |-> 1, title |-> SeedTitle1, content |-> SeedContent1],
       [id |-> 2, title |-> SeedTitle2, content |-> SeedContent2] >>

SetMax(S) == CHOOSE m \in S : \A x \in S : x <= m

IdsOf(posts) == {posts[i].id : i \in 1..Len(posts)}

\* a variant that counts the posts instead of taking the highest id
get_next_id_by_count(posts) == Len(posts) + 1

get_next_id(posts) ==
    IF posts = << >> THEN 1 ELSE SetMax(IdsOf(posts)) + 1

\* a variant whose loop variable survives the loop: the last post when no
\* post matches
get_blog_post_by_id_leaky(posts, post_id) ==
    IF \E i \in 1..Len(posts) : posts[i].id = post_id
    THEN CHOOSE i \in 1..Len(posts) :
            /\ posts[i].id = post_id
            /\ \A j \in 1..(i - 1) : posts[j].id # post_id
    ELSE Len(posts)

\* The post found is a reference into the list: its position, 0 for None.
get_blog_post_by_id(posts, post_id) ==
    IF \E i \in 1..Len(posts) : posts[i].id = post_id
    THEN CHOOSE i \in 1..Len(posts) :
            /\ posts[i].id = post_id
            /\ \A j \in 1..(i - 1) : posts[j].id # post_id
    ELSE 0

\* list.remove(x): the position of the first element equal to x, 0 when
\* there is none (ValueError)
ListIndex(posts, x) ==
    IF \E i \in 1..Len(posts) : posts[i] = x
    THEN CHOOSE i \in 1..Len(posts) :
            /\ posts[i] = x
            /\ \A j \in 1..(i - 1) : posts[j] # x
    ELSE 0

RemoveAt(posts, i) ==
    [j \in 1..(Len(posts) - 1) |-> IF j < i THEN posts[j] ELSE posts[j + 1]]

\* a variant that drops the last element, as list.pop() does
ListRemoveLast(posts, x) == SubSeq(posts, 1, Len(posts) - 1)

ListRemove(posts, x) == RemoveAt(posts, ListIndex(posts, x))

\* a variant that assigns to 'title' whatever the key
SetKeyAlwaysTitle(posts, i, key, value) == [posts EXCEPT ![i]["title"] = value]

\* post[key] = value, on the dictionary at position i
SetItem(posts, i, key, value) == [posts EXCEPT ![i][key] = value]

\* a variant that compares without lower()
find_str_cased(posts, search_str, search_key) ==
    IF search_str = << >> \/ search_key = ""
    THEN << >>
    ELSE SelectSeq(posts, LAMBDA post : Contains(post[search_key], search_str))

\* find_str: [post for post in POSTS if search_str.lower() in post[key].lower()]
find_str(posts, search_str, search_key) ==
    IF search_str = << >> \/ search_key = ""
    THEN << >>
    ELSE SelectSeq(posts,
            LAMBDA post : Contains(Lower(post[search_key]), Lower(search_str)))

find_in_title(posts, title) == find_str(posts, title, "title")

find_in_content(posts, content) == find_str(posts, content, "content")

Reverse(s) == [i \in 1..Len(s) |-> s[Len(s) + 1 - i]]

\* x goes behind every element that is not greater than it
RECURSIVE InsertByKey(_, _, _)
InsertByKey(s, x, key) ==
    IF s = << >> THEN <<x>>
    ELSE IF StrLess(x[key], s[1][key]) THEN <<x>> \o s
    ELSE <<s[1]>> \o InsertByKey(Tail(s), x, key)

\* list.sort(): a stable ascending sort
RECURSIVE StableSort(_, _)
StableSort(s, key) ==
    IF s = << >> THEN << >>
    ELSE InsertByKey(StableSort(SubSeq(s, 1, Len(s) - 1), key), s[Len(s)], key)

\* a variant that sorts ascending and reverses the result
sort_posts_then_reverse(posts, key, is_desc) ==
    IF is_desc
    THEN Reverse(StableSort(posts, key))
    ELSE StableSort(posts, key)

\* sorted(POSTS, key=lambda d: d[key], reverse=is_desc).  With reverse set,
\* list.sort reverses the list, sorts it ascending and reverses the result.
sort_posts_by_(posts, key, is_desc) ==
    IF is_desc
    THEN Reverse(StableSort(Reverse(posts), key))
    ELSE StableSort(posts, key)

(***************************************************************************)
(* Responses                                                               *)
(***************************************************************************)
Response(status, body) == [status |-> status, body |-> body]

\* an exception no handler catches: Flask answers 500
Unhandled(exc) == Response(500, [error |-> exc])

NotFound(post_id) ==
    Response(404, [message |-> <<"Post with id= ", post_id, " not found">>])

Deleted(post_id) ==
    Response(200, [message |-> <<"Post with id ", post_id,
                                 " has been deleted successfully.">>])

WrongSort == Response(400, [message |-> "Wrong sort or direction value"])

(***************************************************************************)
(* The handlers, each run from its first line to its return                *)
(***************************************************************************)
Threads == 1..NumThreads

\* a server thread that is handling no request
Idle == [pc |-> "idle"]

Init ==
    /\ POSTS = SeedPosts
    /\ req = [op |-> "NONE"]
    /\ resp = Response(0, << >>)
    /\ returned = {}
    /\ freed = {}
    /\ thr = [t \in Threads |-> Idle]

\* GET /api/posts
get_posts_response(posts, args) ==
    IF Truthy(args, "sort", "") /\ Truthy(args, "direction", "")
    THEN IF /\ (args["sort"] = "title" \/ args["sort"] = "content")
            /\ (args["direction"] = "asc" \/ args["direction"] = "desc")
         THEN Response(200,
                sort_posts_by_(posts, args["sort"], args["direction"] = "desc"))
         ELSE WrongSort
    ELSE Response(200, posts)

get_posts(args) ==
    /\ req' = [op |-> "GET_POSTS", args |-> args]
    /\ resp' = get_posts_response(POSTS, args)
    /\ UNCHANGED POSTS

\* add_blog_post: the new post, appended
NewPost(posts, title, content) ==
    [id |-> get_next_id(posts), title |-> title, content |-> content]

add_blog_post(posts, title, content) ==
    Append(posts, NewPost(posts, title, content))

\* POST /api/posts.  post_json['title'] and post_json['content'] are
\* evaluated before add_blog_post is called.
add_post(json) ==
    /\ req' = [op |-> "POST", json |-> json]
    /\ IF "title" \in DOMAIN json /\ "content" \in DOMAIN json
       THEN /\ get_next_id(POSTS) <= MaxId
            /\ Len(POSTS) < MaxPosts
            /\ POSTS' = add_blog_post(POSTS, json["title"], json["content"])
            /\ resp' = Response(201, NewPost(POSTS, json["title"], json["content"]))
       ELSE /\ resp' = Unhandled("KeyError")
            /\ UNCHANGED POSTS

\* DELETE /api/posts/<post_id>
delete_post(post_id) ==
    /\ req' = [op |-> "DELETE", post_id |-> post_id]
    /\ LET post == get_blog_post_by_id(POSTS, post_id) IN
       IF post # 0
       THEN /\ POSTS' = ListRemove(POSTS, POSTS[post])
            /\ resp' = Deleted(post_id)
       ELSE /\ resp' = NotFound(post_id)
            /\ UNCHANGED POSTS

\* PUT /api/posts/<post_id>.  The two assignments are two statements: the
\* first has taken effect when the second raises KeyError.
update_post(post_id, json) ==
    /\ req' = [op |-> "PUT", post_id |-> post_id, json |-> json]
    /\ LET post == get_blog_post_by_id(POSTS, post_id) IN
       IF post = 0
       THEN /\ resp' = NotFound(post_id)
            /\ UNCHANGED POSTS
       ELSE IF "title" \notin DOMAIN json
       THEN /\ resp' = Unhandled("KeyError")
            /\ UNCHANGED POSTS
       ELSE IF "content" \notin DOMAIN json
       THEN /\ POSTS' = SetItem(POSTS, post, "title", json["title"])
            /\ resp' = Unhandled("KeyError")
       ELSE /\ POSTS' = SetItem(SetItem(POSTS, post, "title", json["title"]),
                                post, "content", json["content"])
            /\ resp' = Response(200, POSTS'[post])

\* GET /api/posts/search
get_posts_search_response(posts, args) ==
    IF Truthy(args, "title", << >>)
    THEN Response(200, find_in_title(posts, args["title"]))
    ELSE IF Truthy(args, "content", << >>)
    THEN Response(200, find_in_content(posts, args["content"]))
    ELSE Response(404, << >>)

get_posts_search(args) ==
    /\ req' = [op |-> "SEARCH", args |-> args]
    /\ resp' = get_posts_search_response(POSTS, args)
    /\ UNCHANGED POSTS

\* One request at a time.  The history is not kept.
NoHistory == UNCHANGED <<returned, freed, thr>>

Next ==
    \/ \E args \in SortArgs : get_posts(args) /\ NoHistory
    \/ \E json \in JsonBodies : add_post(json) /\ NoHistory
    \/ \E post_id \in Ids : delete_post(post_id) /\ NoHistory
    \/ \E post_id \in Ids, json \in JsonBodies :
            update_post(post_id, json) /\ NoHistory
    \/ \E args \in SearchArgs : get_posts_search(args) /\ NoHistory

Spec == Init /\ [][Next]_vars

\* One request at a time, with the ids that inserts return and deletes free
\* written down from the responses
Record ==
    /\ returned' = IF req'.op = "POST" /\ resp'.status = 201
                   THEN returned \cup {resp'.body.id} ELSE returned
    /\ freed' = IF req'.op = "DELETE" /\ resp'.status = 200
                THEN freed \cup {req'.post_id} ELSE freed
    /\ UNCHANGED thr

NextHist ==
    \/ \E args \in SortArgs : get_posts(args) /\ Record
    \/ \E json \in JsonBodies : add_post(json) /\ Record
    \/ \E post_id \in Ids : delete_post(post_id) /\ Record
    \/ \E post_id \in Ids, json \in JsonBodies :
            update_post(post_id, json) /\ Record
    \/ \E args \in SearchArgs : get_posts_search(args) /\ Record

SpecHist == Init /\ [][NextHist]_vars

(***************************************************************************)
(* The handlers of the threaded server (app.run serves each request in a   *)
(* thread of its own), a step being what one statement of a handler does   *)
(* to POSTS.  A thread that has looked a post up holds a reference to the  *)
(* dictionary: ref is its position in POSTS, or 0 once another thread has  *)
(* removed it from the list, and val is then the dictionary's contents.    *)
(***************************************************************************)
\* the bodies that carry both fields
FullBodies == {json \in JsonBodies : DOMAIN json = {"title", "content"}}

NoPost == [id |-> 0, title |-> << >>, content |-> << >>]

HoldsPost(h) == h.pc \in {"remove", "set_title", "set_content", "return"}

\* the dictionary a handler's local variable `post` refers to
Deref(posts, h) == IF h.ref # 0 THEN posts[h.ref] ELSE h.val

\* what the removal of the element at position i does to a reference
Shift(posts, h, i) ==
    IF ~HoldsPost(h) \/ h.ref < i THEN h
    ELSE IF h.ref = i THEN [h EXCEPT !.ref = 0, !.val = posts[i]]
    ELSE [h EXCEPT !.ref = h.ref - 1]

Done(status, body) == [pc |-> "done", status |-> status, body |-> body]

\* add_blog_post, line 98: id = get_next_id(POSTS), and the post is built
add_post_next_id(t, json) ==
    /\ thr[t].pc = "idle"
    /\ get_next_id(POSTS) <= MaxId
    /\ Len(POSTS) < MaxPosts
    /\ IF "title" \in DOMAIN json /\ "content" \in DOMAIN json
       THEN thr' = [thr EXCEPT ![t] =
                [pc |-> "append",
                 post |-> NewPost(POSTS, json["title"], json["content"])]]
       ELSE thr' = [thr EXCEPT ![t] = Done(500, [error |-> "KeyError"])]
    /\ UNCHANGED <<POSTS, req, resp, returned, freed>>

\* add_blog_post, line 101: POSTS.append(post)
add_post_append(t) ==
    /\ thr[t].pc = "append"
    /\ POSTS' = Append(POSTS, thr[t].post)
    /\ thr' = [thr EXCEPT ![t] = Done(201, thr[t].post)]
    /\ UNCHANGED <<req, resp, returned, freed>>

\* delete_post, line 226: post = get_blog_post_by_id(post_id)
delete_post_lookup(t, post_id) ==
    /\ thr[t].pc = "idle"
    /\ LET post == get_blog_post_by_id(POSTS, post_id) IN
       thr' = [thr EXCEPT ![t] =
                IF post # 0
                THEN [pc |-> "remove", post_id |-> post_id,
                      ref |-> post, val |-> NoPost]
                ELSE Done(404, NotFound(post_id).body)]
    /\ UNCHANGED <<POSTS, req, resp, returned, freed>>

\* delete_post, line 228: POSTS.remove(post) removes the first element equal
\* to post and raises ValueError when there is none
delete_post_remove(t) ==
    /\ thr[t].pc = "remove"
    /\ LET i == ListIndex(POSTS, Deref(POSTS, thr[t])) IN
       IF i = 0
       THEN /\ thr' = [thr EXCEPT ![t] = Done(500, [error |-> "ValueError"])]
            /\ UNCHANGED POSTS
       ELSE /\ POSTS' = RemoveAt(POSTS, i)
            /\ thr' = [u \in Threads |->
                        IF u = t THEN Done(200, Deleted(thr[t].post_id).body)
                        ELSE Shift(POSTS, thr[u], i)]
    /\ UNCHANGED <<req, resp, returned, freed>>

\* update_post, lines 253-255: the lookup, and the body is read
update_post_lookup(t, post_id, json) ==
    /\ thr[t].pc = "idle"
    /\ LET post == get_blog_post_by_id(POSTS, post_id) IN
       thr' = [thr EXCEPT ![t] =
                IF post # 0
                THEN [pc |-> "set_title", json |-> json,
                      ref |-> post, val |-> NoPost]
                ELSE Done(404, NotFound(post_id).body)]
    /\ UNCHANGED <<POSTS, req, resp, returned, freed>>

\* post[key] = post_json[key], on the dictionary the thread refers to
SetKey(t, key, then) ==
    IF key \notin DOMAIN thr[t].json
    THEN /\ thr' = [thr EXCEPT ![t] = Done(500, [error |-> "KeyError"])]
         /\ UNCHANGED POSTS
    ELSE IF thr[t].ref # 0
    THEN /\ POSTS' = SetItem(POSTS, thr[t].ref, key, thr[t].json[key])
         /\ thr' = [thr EXCEPT ![t].pc = then]
    ELSE /\ thr' = [thr EXCEPT ![t].pc = then,
                               ![t].val[key] = thr[t].json[key]]
         /\ UNCHANGED POSTS

\* update_post, line 256: post['title'] = post_json['title']
update_post_title(t) ==
    /\ thr[t].pc = "set_title"
    /\ SetKey(t, "title", "set_content")
    /\ UNCHANGED <<req, resp, returned, freed>>

\* update_post, line 257: post['content'] = post_json['content']
update_post_content(t) ==
    /\ thr[t].pc = "set_content"
    /\ SetKey(t, "content", "return")
    /\ UNCHANGED <<req, resp, returned, freed>>

\* update_post, line 259: return jsonify(post), 200
update_post_return(t) ==
    /\ thr[t].pc = "return"
    /\ thr' = [thr EXCEPT ![t] = Done(200, Deref(POSTS, thr[t]))]
    /\ UNCHANGED <<POSTS, req, resp, returned, freed>>

\* the response is sent and the thread takes the next request
handler_done(t) ==
    /\ thr[t].pc = "done"
    /\ thr' = [thr EXCEPT ![t] = Idle]
    /\ UNCHANGED <<POSTS, req, resp, returned, freed>>

NextConc ==
    \/ \E t \in Threads, json \in FullBodies : add_post_next_id(t, json)
    \/ \E t \in Threads : add_post_append(t)
    \/ \E t \in Threads, post_id \in Ids : delete_post_lookup(t, post_id)
    \/ \E t \in Threads : delete_post_remove(t)
    \/ \E t \in Threads, post_id \in Ids, json \in FullBodies :
            update_post_lookup(t, post_id, json)
    \/ \E t \in Threads : update_post_title(t)
    \/ \E t \in Threads : update_post_content(t)
    \/ \E t \in Threads : update_post_return(t)
    \/ \E t \in Threads : handler_done(t)

SpecConc == Init /\ [][NextConc]_vars

(***************************************************************************)
(* Properties                                                              *)
(***************************************************************************)
Distinct(posts) ==
    \A i, j \in 1..Len(posts) : i # j => posts[i].id # posts[j].id

HasBoth(json) == DOMAIN json = {"title", "content"}

\* the position of the post with this id (ids being distinct)
PositionOf(posts, id) == CHOOSE i \in 1..Len(posts) : posts[i].id = id

\* C1: handling one request at a time, from the seed store on, no two posts
\* of the store have the same id, whatever inserts, updates and deletes
\* were made.
C1_IdsUnique == Distinct(POSTS)

\* C1: an insert has succeeded after seed post 1 was deleted and seed post 2
\* was updated.
C1_Witness ==
    /\ req.op = "POST" /\ resp.status = 201
    /\ 1 \notin IdsOf(POSTS)
    /\ \E i \in 1..Len(POSTS) :
            POSTS[i].id = 2 /\ POSTS[i].title # SeedTitle2

\* C2: every insert returns an id that is greater than every id an earlier
\* insert returned, and that no deleted post held.
C2_InsertIdsFresh ==
    [][(req'.op = "POST" /\ resp'.status = 201) =>
            /\ \A r \in returned : r < resp'.body.id
            /\ resp'.body.id \notin freed]_vars

\* C3: a POST with title and content returns 201 with the post whose id is 1
\* for an empty store and the highest id plus one otherwise, and appends it;
\* an unsorted GET returns the store; a post stays in the store through
\* every request but a DELETE of its id that returns 200; and that DELETE
\* takes every post of that id out and leaves the others as they were, in
\* their order.
C3_Lifecycle ==
    [][/\ (req'.op = "POST" /\ HasBoth(req'.json)) =>
            /\ resp'.status = 201
            /\ resp'.body.title = req'.json["title"]
            /\ resp'.body.content = req'.json["content"]
            /\ IF POSTS = << >>
               THEN resp'.body.id = 1
               ELSE /\ \A i \in 1..Len(POSTS) : POSTS[i].id < resp'.body.id
                    /\ \E i \in 1..Len(POSTS) : POSTS[i].id + 1 = resp'.body.id
            /\ POSTS' = POSTS \o <<resp'.body>>
       /\ (req'.op = "GET_POSTS" /\ DOMAIN req'.args = {}) =>
            /\ resp'.status = 200
            /\ resp'.body = POSTS
            /\ POSTS' = POSTS
       /\ \A id \in IdsOf(POSTS) :
            ~(req'.op = "DELETE" /\ req'.post_id = id /\ resp'.status = 200)
                => id \in IdsOf(POSTS')
       /\ (req'.op = "DELETE" /\ resp'.status = 200) =>
            /\ req'.post_id \notin IdsOf(POSTS')
            /\ POSTS' = SelectSeq(POSTS, LAMBDA p : p.id # req'.post_id)
      ]_vars

\* C3: a post that an insert created (id 3) has just been deleted, the
\* other posts being still there.
C3_Witness ==
    /\ req.op = "DELETE" /\ req.post_id = 3 /\ resp.status = 200
    /\ Len(POSTS) >= 2

\* C4: a DELETE or a PUT of an id that no post of the store has returns 404
\* and leaves the store as it was.
C4_UnknownIdNoEffect ==
    [][(req'.op \in {"DELETE", "PUT"} /\ req'.post_id \notin IdsOf(POSTS)) =>
            /\ resp'.status = 404
            /\ POSTS' = POSTS]_vars

\* C4: a DELETE of an id that is not in a store of two posts or more has
\* returned 404.
C4_Witness ==
    /\ req.op = "DELETE" /\ resp.status = 404
    /\ req.post_id \notin IdsOf(POSTS)
    /\ Len(POSTS) >= 2

\* C5: a PUT of an id of the store with a body of title and content returns
\* 200 with the updated post; the post of that id has the body's title and
\* content and its id, at its position, and every other post is as it was.
C5_UpdateFrame ==
    [][(/\ req'.op = "PUT"
        /\ req'.post_id \in IdsOf(POSTS)
        /\ HasBoth(req'.json)) =>
            /\ resp'.status = 200
            /\ Len(POSTS') = Len(POSTS)
            /\ \A i \in 1..Len(POSTS) :
                IF POSTS[i].id = req'.post_id
                THEN /\ POSTS'[i] = [id |-> req'.post_id,
                                     title |-> req'.json["title"],
                                     content |-> req'.json["content"]]
                     /\ resp'.body = POSTS'[i]
                ELSE POSTS'[i] = POSTS[i]]_vars

\* C5: a PUT has replaced the title and the content of the second of three
\* posts or more.
C5_Witness ==
    /\ req.op = "PUT" /\ resp.status = 200
    /\ Len(POSTS) >= 3
    /\ POSTS[2].id = req.post_id
    /\ POSTS[2].title = req.json["title"]
    /\ POSTS[1].title = SeedTitle1

\* C6: a GET /api/posts whose sort value, if supplied, is not title or
\* content, or whose direction value, if supplied, is not asc or desc, is
\* answered 400 "Wrong sort or direction value".
C6_BadSortRejected ==
    (/\ req.op = "GET_POSTS"
     /\ \/ Supplied(req.args, "sort")
              /\ req.args["sort"] \notin {"title", "content"}
        \/ Supplied(req.args, "direction")
              /\ req.args["direction"] \notin {"asc", "desc"})
        => (resp.status = 400
            /\ resp.body = [message |-> "Wrong sort or direction value"])

\* C7: a GET /api/posts with sort title or content and direction asc or desc
\* returns 200 with the posts of the store, each once, in ascending (asc) or
\* descending (desc) order of that field, posts with the same value in
\* their stored order; the store is as it was.
C7_SortedListing ==
    [][(/\ req'.op = "GET_POSTS"
        /\ DOMAIN req'.args = {"sort", "direction"}
        /\ req'.args["sort"] \in {"title", "content"}
        /\ req'.args["direction"] \in {"asc", "desc"}) =>
            LET key == req'.args["sort"]
                body == resp'.body
            IN  /\ resp'.status = 200
                /\ POSTS' = POSTS
                /\ Len(body) = Len(POSTS)
                /\ \A i \in 1..Len(POSTS) :
                        \E j \in 1..Len(body) : body[j] = POSTS[i]
                /\ \A i, j \in 1..Len(body) :
                        i < j =>
                            /\ IF req'.args["direction"] = "asc"
                               THEN ~StrLess(body[j][key], body[i][key])
                               ELSE ~StrLess(body[i][key], body[j][key])
                            /\ body[i][key] = body[j][key] =>
                                    PositionOf(POSTS, body[i].id)
                                        < PositionOf(POSTS, body[j].id)
      ]_vars

\* C7: a descending listing by title of three posts or more, two of which
\* have the same title, in an order that is not the stored one.
C7_Witness ==
    /\ req.op = "GET_POSTS"
    /\ DOMAIN req.args = {"sort", "direction"}
    /\ req.args["sort"] = "title" /\ req.args["direction"] = "desc"
    /\ resp.status = 200
    /\ Len(POSTS) >= 3
    /\ \E i, j \in 1..Len(POSTS) : i < j /\ POSTS[i].title = POSTS[j].title
    /\ resp.body # POSTS

\* q occurs in s when letter case is ignored
OccursIgnoringCase(s, q) ==
    \E k \in 0..(Len(s) - Len(q)) :
        \A i \in 1..Len(q) : LowerChar(s[k + i]) = LowerChar(q[i])

\* C8: a search with neither a title nor a content value returns 404 with an
\* empty array; a search with a value for one of them returns 200 with the
\* posts of the store, in stored order, whose field of that name contains
\* the value when letter case is ignored; the store is as it was.
C8_Search ==
    [][req'.op = "SEARCH" =>
        LET args == req'.args
            byTitle == Truthy(args, "title", << >>)
            byContent == Truthy(args, "content", << >>)
        IN  /\ POSTS' = POSTS
            /\ (~byTitle /\ ~byContent) =>
                    resp'.status = 404 /\ resp'.body = << >>
            /\ (byTitle /\ ~byContent) =>
                    /\ resp'.status = 200
                    /\ resp'.body = SelectSeq(POSTS,
                         LAMBDA p : OccursIgnoringCase(p.title, args["title"]))
            /\ (byContent /\ ~byTitle) =>
                    /\ resp'.status = 200
                    /\ resp'.body = SelectSeq(POSTS,
                         LAMBDA p : OccursIgnoringCase(p.content, args["content"]))
      ]_vars

\* C8: a search by a title value in capital letters has returned some posts
\* of the store and not all.
C8_Witness ==
    /\ req.op = "SEARCH" /\ resp.status = 200
    /\ DOMAIN req.args = {"title"}
    /\ \A i \in 1..Len(req.args["title"]) : req.args["title"][i] \in 65..90
    /\ resp.body # << >>
    /\ Len(resp.body) < Len(POSTS)

\* C9: a POST or a PUT that fails for a missing title or content leaves the
\* store as it was.
C9_FailedWriteNoEffect ==
    [][(/\ req'.op \in {"POST", "PUT"}
        /\ ~HasBoth(req'.json)
        /\ resp'.status = 500) => POSTS' = POSTS]_vars

\* C10: with the handlers' steps interleaved, every request ends with 201,
\* 200 or 404 and no two posts of the store have the same id.
C10_InterleavedSafe ==
    /\ \A t \in Threads :
            thr[t].pc = "done" => thr[t].status \in {200, 201, 404}
    /\ Distinct(POSTS)

====
